---- MODULE Spec2Model ----
(***************************************************************************)
(* Model of app.py: the module start-up (environment -> client) and the    *)
(* request handler fetch_from_gemini behind the GET and POST routes of     *)
(* /fetch-product-details.                                                 *)
(*                                                                         *)
(* Reply texts are sequences of lexical tokens, at the granularity the     *)
(* code works at (str.find("{"), str.rfind("}"), slicing, json.loads):     *)
(*   "{"  "}"  ","   the characters themselves                             *)
(*   "a"   the member text  "brand":"Acme"                                 *)
(*   "v"   the member text  "visualDescription":"round"                    *)
(*   "s"   the key text  "specifications":  , to be followed by an object  *)
(*   "x"   a run of prose that holds no brace                              *)
(***************************************************************************)
EXTENDS Integers, Sequences, FiniteSets, TLC

VARIABLES env, phase, client,
          pc, method, query, use_search, config, calls, steps,
          response, raw_text, start, end, product_data, sources, result

vars == <<env, phase, client,
          pc, method, query, use_search, config, calls, steps,
          response, raw_text, start, end, product_data, sources, result>>

envVars == <<env, phase, client>>
reqVars == <<pc, method, query, use_search, config, calls, steps,
             response, raw_text, start, end, product_data, sources, result>>

(***************************************************************************)
(* Bounds                                                                  *)
(***************************************************************************)
MaxLen == 4
MaxChunks == 2

(***************************************************************************)
(* Python values                                                           *)
(***************************************************************************)
\* None, and an unset environment variable (os.getenv returns None)
None == "<None>"

\* truthiness of a str-or-None value: None and "" are falsy
Truthy(s) == s # None /\ s # ""

\* temperature=0.5, in tenths
TemperatureTenths == 5

(***************************************************************************)
(* Module start-up, app.py lines 14-34                                     *)
(***************************************************************************)
ApiKeyValues == {None, "", "key"}
VertexFlagValues == {None, "true", "True", "TRUE", "1", "false", "False", "0", "yes"}
ProjectValues == {None, "", "proj"}
LocationValues == {None, "", "loc"}

Envs == [API_KEY : ApiKeyValues,
         GOOGLE_GENAI_USE_VERTEXAI : VertexFlagValues,
         GOOGLE_CLOUD_PROJECT : ProjectValues,
         GOOGLE_CLOUD_LOCATION : LocationValues]

\* os.getenv(name, default)
getenv(e, name, default) == IF e[name] = None THEN default ELSE e[name]

\* str.lower() on the flag values above
lower(s) ==
    CASE s = "True" -> "true"
      [] s = "TRUE" -> "true"
      [] s = "False" -> "false"
      [] OTHER -> s

\* line 20
USE_VERTEXAI(e) == lower(getenv(e, "GOOGLE_GENAI_USE_VERTEXAI", "False")) \in {"true", "1"}

NoClient == [vertexai |-> FALSE, api_key |-> None, project |-> None, location |-> None]

\* lines 15-34: the outcome of importing the module under environment e
Startup(e) ==
    IF ~Truthy(e.API_KEY)
    THEN [phase |-> "crashed", error |-> "API_KEY environment variable is not set",
          client |-> NoClient]
    ELSE IF USE_VERTEXAI(e)
    THEN IF ~Truthy(e.GOOGLE_CLOUD_PROJECT) \/ ~Truthy(e.GOOGLE_CLOUD_LOCATION)
         THEN [phase |-> "crashed",
               error |-> "GOOGLE_CLOUD_PROJECT and GOOGLE_CLOUD_LOCATION must be set when using Vertex AI",
               client |-> NoClient]
         ELSE [phase |-> "running", error |-> None,
               client |-> [vertexai |-> TRUE, api_key |-> None,
                           project |-> e.GOOGLE_CLOUD_PROJECT,
                           location |-> e.GOOGLE_CLOUD_LOCATION]]
    ELSE [phase |-> "running", error |-> None,
          client |-> [vertexai |-> FALSE, api_key |-> e.API_KEY,
                      project |-> None, location |-> None]]

(***************************************************************************)
(* Strings                                                                 *)
(***************************************************************************)
Chars == {"{", "}", ",", "a", "v", "s", "x"}

RECURSIVE SeqsOfLen(_, _)
SeqsOfLen(S, n) ==
    IF n = 0 THEN {<<>>}
    ELSE {Append(s, c) : s \in SeqsOfLen(S, n - 1), c \in S}

SeqsUpTo(S, n) == UNION {SeqsOfLen(S, k) : k \in 0..n}

\* str.find(c): 0-based index of the first occurrence, -1 when there is none
find(s, c) ==
    IF \E i \in 1..Len(s) : s[i] = c
    THEN (CHOOSE i \in 1..Len(s) : s[i] = c /\ \A j \in 1..(i - 1) : s[j] # c) - 1
    ELSE -1

\* str.rfind(c): 0-based index of the last occurrence, -1 when there is none
rfind(s, c) ==
    IF \E i \in 1..Len(s) : s[i] = c
    THEN (CHOOSE i \in 1..Len(s) : s[i] = c /\ \A j \in (i + 1)..Len(s) : s[j] # c) - 1
    ELSE -1

\* s[lo:hi] for 0 <= lo, hi
slice(s, lo, hi) == SubSeq(s, lo + 1, IF hi > Len(s) THEN Len(s) ELSE hi)

(***************************************************************************)
(* json.loads on a token sequence                                          *)
(*   object  ::=  "{" [ member { "," member } ] "}"                        *)
(*   member  ::=  "a" | "v" | "s" object                                   *)
(***************************************************************************)
MemberKey(c) ==
    CASE c = "v" -> "visualDescription"
      [] c = "s" -> "specifications"
      [] OTHER -> "brand"
MemberValue(c) == IF c = "v" THEN "round" ELSE "Acme"

EmptyDict == [k \in {} |-> "null"]

\* d[k] = v on a dict
SetItem(d, k, v) == [x \in DOMAIN d \cup {k} |-> IF x = k THEN v ELSE d[x]]

ParseError == [ok |-> FALSE, next |-> 0, value |-> EmptyDict]

RECURSIVE ParseObject(_, _)
RECURSIVE ParseMembers(_, _, _)

\* after a member that ended before position j: "," and more members, or "}"
ParseTail(s, j, acc) ==
    IF j > Len(s) THEN ParseError
    ELSE IF s[j] = "," THEN ParseMembers(s, j + 1, acc)
    ELSE IF s[j] = "}" THEN [ok |-> TRUE, next |-> j + 1, value |-> acc]
    ELSE ParseError

\* a member at position i, then the rest of the object; a repeated key keeps
\* its last value
ParseMembers(s, i, acc) ==
    IF i > Len(s) THEN ParseError
    ELSE IF s[i] \in {"a", "v"}
         THEN ParseTail(s, i + 1, SetItem(acc, MemberKey(s[i]), MemberValue(s[i])))
    ELSE IF s[i] = "s" /\ i + 1 <= Len(s) /\ s[i + 1] = "{"
         THEN LET inner == ParseObject(s, i + 1) IN
              IF inner.ok
              THEN ParseTail(s, inner.next, SetItem(acc, MemberKey("s"), inner.value))
              ELSE ParseError
    ELSE ParseError

\* an object whose "{" is at position i
ParseObject(s, i) ==
    IF i + 1 <= Len(s) /\ s[i + 1] = "}"
    THEN [ok |-> TRUE, next |-> i + 2, value |-> EmptyDict]
    ELSE ParseMembers(s, i + 1, EmptyDict)

\* json.loads(s): the dict, or a JSONDecodeError (ok = FALSE) when s is not
\* one object or has data after it
json_loads(s) ==
    IF Len(s) >= 1 /\ s[1] = "{"
    THEN LET r == ParseObject(s, 1) IN
         IF r.ok /\ r.next = Len(s) + 1
         THEN [ok |-> TRUE, value |-> r.value]
         ELSE [ok |-> FALSE, value |-> EmptyDict]
    ELSE [ok |-> FALSE, value |-> EmptyDict]

(***************************************************************************)
(* The upstream reply: response.text and                                   *)
(* response.candidates[0].grounding_metadata.grounding_chunks              *)
(***************************************************************************)
\* chunk.web is an attribute the chunk lacks ("absent"), is None ("null"), or
\* is an object with uri and title, each a str or None
WebChunks == [web : {"object"}, uri : {None, "", "u1", "u2"}, title : {None, "", "t1"}]
Chunks == [web : {"absent", "null"}, uri : {None}, title : {None}] \cup WebChunks

\* where the attribute path candidates[0].grounding_metadata.grounding_chunks
\* stops: candidates is None, candidates is empty, grounding_metadata is
\* None, grounding_chunks is None, or grounding_chunks is a list
BrokenShapes == {"candidates_none", "candidates_empty", "metadata_none", "chunks_none"}

Groundings ==
    [shape : BrokenShapes, chunks : {<<>>}]
      \cup [shape : {"chunks"}, chunks : SeqsUpTo(Chunks, MaxChunks)]

NoGrounding == [shape |-> "metadata_none", chunks |-> <<>>]

\* longer replies: the object between prose, several members, a nested
\* object, braces in the prose, two objects
LongTexts ==
    { <<"x", "{", "a", "}", "x">>,
      <<"{", "a", ",", "v", "}">>,
      <<"x", "{", "a", ",", "a", "}", "x">>,
      <<"{", "s", "{", "v", "}", "}">>,
      <<"x", "{", "s", "{", "a", "}", ",", "v", "}", "x">>,
      <<"{", "x", "}", "{", "a", "}">>,
      <<"{", "a", "}", "x", "{", "a", "}">> }

\* every reply text of at most MaxLen tokens, and the longer ones above
Texts == SeqsUpTo(Chars, MaxLen) \cup LongTexts

\* replies whose text parses, used to exercise every grounding shape
CitedTexts == {<<"{", "a", "}">>, <<"x", "{", "v", "}">>}

\* what generate_content may return: any text without citations, a text that
\* parses with any citations, or no text at all
Replies ==
    [text_none : {FALSE}, text : Texts, grounding : {NoGrounding}]
      \cup [text_none : {FALSE}, text : CitedTexts, grounding : Groundings]
      \cup [text_none : {TRUE}, text : {<<>>}, grounding : {NoGrounding}]

NoReply == [text_none |-> TRUE, text |-> <<>>, grounding |-> NoGrounding]

\* lines 102-104: the loop over the chunks from index i on, with the sources
\* appended so far; raised when chunk.web.uri is read off a None web
RECURSIVE ReadChunks(_, _, _)
ReadChunks(chunks, i, acc) ==
    IF i > Len(chunks) THEN [raised |-> FALSE, sources |-> acc]
    ELSE LET chunk == chunks[i] IN
         IF chunk.web = "absent" THEN ReadChunks(chunks, i + 1, acc)
         ELSE IF chunk.web = "null" THEN [raised |-> TRUE, sources |-> acc]
         ELSE IF Truthy(chunk.uri) /\ Truthy(chunk.title)
              THEN ReadChunks(chunks, i + 1,
                              Append(acc, [uri |-> chunk.uri, title |-> chunk.title]))
              ELSE ReadChunks(chunks, i + 1, acc)

\* a handler that keeps the sources appended before the error
ReadSources_KeepPartial(g) ==
    IF g.shape # "chunks" THEN <<>>
    ELSE ReadChunks(g.chunks, 1, <<>>).sources

\* lines 99-106: the try block and its handler
ReadSources(g) ==
    IF g.shape # "chunks" THEN <<>>
    ELSE LET r == ReadChunks(g.chunks, 1, <<>>) IN
         IF r.raised THEN <<>> ELSE r.sources

(***************************************************************************)
(* HTTP responses                                                          *)
(***************************************************************************)
NoResult == [status |-> 0, kind |-> "none", detail |-> "", body |-> EmptyDict]

\* raise HTTPException(status_code=500, detail=d): body {"detail": d}
HTTPException(d) == [status |-> 500, kind |-> "detail", detail |-> d, body |-> EmptyDict]

\* an exception that leaves the route function: the server's plain-text
\* "Internal Server Error" reply
UncaughtException == [status |-> 500, kind |-> "plain", detail |-> "Internal Server Error",
                      body |-> EmptyDict]

\* a returned dict
Returned(d) == [status |-> 200, kind |-> "json", detail |-> "", body |-> d]

UpstreamDetail(us) ==
    IF us THEN "Gemini API call failed (use_search=True)"
    ELSE "Gemini API call failed (use_search=False)"
EmptyDetail == "Empty response from Gemini API"
NoJsonDetail == "No valid JSON found in response"

NoConfig == [tools |-> <<>>, temperature |-> 0]

\* useSearch: bool = Query(False)
UseSearchParams == {"omitted", "true", "false"}
QueryBool(p) == IF p = "omitted" THEN FALSE ELSE p = "true"
NoQuery == [useSearch |-> "omitted"]

(***************************************************************************)
(* Initial states                                                          *)
(***************************************************************************)
IdleRequest ==
    /\ pc = "idle"
    /\ method = "none"
    /\ query = NoQuery
    /\ use_search = FALSE
    /\ config = NoConfig
    /\ calls = 0
    /\ steps = <<>>
    /\ response = NoReply
    /\ raw_text = <<>>
    /\ start = -1
    /\ end = -1
    /\ product_data = EmptyDict
    /\ sources = <<>>
    /\ result = NoResult

\* the process before app.py is imported, under any environment
InitStartup ==
    /\ env \in Envs
    /\ phase = "loading"
    /\ client = NoClient
    /\ IdleRequest

DefaultEnv == [API_KEY |-> "key", GOOGLE_GENAI_USE_VERTEXAI |-> None,
               GOOGLE_CLOUD_PROJECT |-> None, GOOGLE_CLOUD_LOCATION |-> None]

\* the service once app.py is imported with an API key
Init ==
    /\ env = DefaultEnv
    /\ phase = Startup(DefaultEnv).phase
    /\ client = Startup(DefaultEnv).client
    /\ IdleRequest

(***************************************************************************)
(* Actions                                                                 *)
(***************************************************************************)
\* lines 14-34
ModuleLoad ==
    /\ phase = "loading"
    /\ phase' = Startup(env).phase
    /\ client' = Startup(env).client
    /\ UNCHANGED <<env, reqVars>>

\* lines 115-117
fetch_product_details_post ==
    /\ phase = "running" /\ pc = "idle"
    /\ \E useSearch \in UseSearchParams :
         /\ query' = [useSearch |-> useSearch]
         /\ use_search' = QueryBool(useSearch)
    /\ method' = "POST"
    /\ pc' = "config"
    /\ UNCHANGED <<envVars, config, calls, steps, response, raw_text, start, end,
                   product_data, sources, result>>

\* lines 119-125
fetch_product_details_get ==
    /\ phase = "running" /\ pc = "idle"
    /\ \E useSearch \in UseSearchParams :
         /\ query' = [useSearch |-> useSearch]
         /\ use_search' = QueryBool(useSearch)
    /\ method' = "GET"
    /\ pc' = "config"
    /\ UNCHANGED <<envVars, config, calls, steps, response, raw_text, start, end,
                   product_data, sources, result>>

\* a configuration that attaches the search tool whatever the flag
GenerateContentConfig_AlwaysSearch(us) ==
    [tools |-> <<"google_search">>, temperature |-> TemperatureTenths]

\* lines 66-74
GenerateContentConfig(us) ==
    IF us
    THEN [tools |-> <<"google_search">>, temperature |-> TemperatureTenths]
    ELSE [tools |-> <<>>, temperature |-> TemperatureTenths]

\* lines 66-74
SelectConfig ==
    /\ pc = "config"
    /\ config' = GenerateContentConfig(use_search)
    /\ pc' = "call"
    /\ UNCHANGED <<envVars, method, query, use_search, calls, steps, response, raw_text,
                   start, end, product_data, sources, result>>

\* a handler that calls again after the first error
GenerateContentRaises_Retry ==
    /\ pc = "call"
    /\ calls' = calls + 1
    /\ steps' = Append(steps, "generate_content")
    /\ IF calls = 0
       THEN /\ result' = result
            /\ pc' = "call"
       ELSE /\ result' = HTTPException(UpstreamDetail(use_search))
            /\ pc' = "failed"
    /\ UNCHANGED <<envVars, method, query, use_search, config, response, raw_text,
                   start, end, product_data, sources>>

\* lines 76-84, the call raising
GenerateContentRaises ==
    /\ pc = "call"
    /\ calls' = calls + 1
    /\ steps' = Append(steps, "generate_content")
    /\ result' = HTTPException(UpstreamDetail(use_search))
    /\ pc' = "failed"
    /\ UNCHANGED <<envVars, method, query, use_search, config, response, raw_text,
                   start, end, product_data, sources>>

\* lines 76-81, the call returning
GenerateContentReturns ==
    /\ pc = "call"
    /\ calls' = calls + 1
    /\ steps' = Append(steps, "generate_content")
    /\ \E r \in Replies : response' = r
    /\ pc' = "check_empty"
    /\ UNCHANGED <<envVars, method, query, use_search, config, raw_text,
                   start, end, product_data, sources, result>>

\* a test that only catches an absent text
Falsy_NoneOnly(r) == r.text_none

\* line 87: not raw_text
Falsy(r) == r.text_none \/ Len(r.text) = 0

\* lines 86-88
CheckEmpty ==
    /\ pc = "check_empty"
    /\ steps' = Append(steps, "empty_check")
    /\ raw_text' = response.text
    /\ IF Falsy(response)
       THEN /\ result' = HTTPException(EmptyDetail)
            /\ pc' = "failed"
       ELSE /\ result' = result
            /\ pc' = "extract"
    /\ UNCHANGED <<envVars, method, query, use_search, config, calls, response,
                   start, end, product_data, sources>>

\* a test that forgets the order of the two braces
NoJsonFound_Unordered(st, en) == st = -1 \/ en = -1

\* line 93
NoJsonFound(st, en) == st = -1 \/ en = -1 \/ en < st

\* lines 91-94
ExtractJson ==
    /\ pc = "extract"
    /\ steps' = Append(steps, "find")
    /\ start' = find(raw_text, "{")
    /\ end' = rfind(raw_text, "}")
    /\ IF NoJsonFound(start', end')
       THEN /\ result' = HTTPException(NoJsonDetail)
            /\ pc' = "failed"
       ELSE /\ result' = result
            /\ pc' = "parse"
    /\ UNCHANGED <<envVars, method, query, use_search, config, calls, response, raw_text,
                   product_data, sources>>

\* a span that stops before the last brace
ExtractedSpan_Short(t, st, en) == slice(t, st, en)

\* line 96: raw_text[start:end+1]
ExtractedSpan(t, st, en) == slice(t, st, en + 1)

\* line 96
ParseJson ==
    /\ pc = "parse"
    /\ steps' = Append(steps, "json_loads")
    /\ LET parsed == json_loads(ExtractedSpan(raw_text, start, end)) IN
       IF parsed.ok
       THEN /\ product_data' = parsed.value
            /\ result' = result
            /\ pc' = "grounding"
       ELSE /\ product_data' = product_data
            /\ result' = UncaughtException
            /\ pc' = "failed"
    /\ UNCHANGED <<envVars, method, query, use_search, config, calls, response, raw_text,
                   start, end, sources>>

\* lines 99-106
ReadGrounding ==
    /\ pc = "grounding"
    /\ steps' = Append(steps, "grounding")
    /\ sources' = ReadSources(response.grounding)
    /\ pc' = "finish"
    /\ UNCHANGED <<envVars, method, query, use_search, config, calls, response, raw_text,
                   start, end, product_data, result>>

\* a strip that leaves the dict as it is
StripVisual_Keep(d) == d

\* lines 108-109
StripVisual(d) == [k \in DOMAIN d \ {"visualDescription"} |-> d[k]]

\* lines 108-113
Finish ==
    /\ pc = "finish"
    /\ steps' = Append(steps, "strip_attach")
    /\ product_data' = SetItem(StripVisual(product_data), "sources", sources)
    /\ result' = Returned(product_data')
    /\ pc' = "done"
    /\ UNCHANGED <<envVars, method, query, use_search, config, calls, response, raw_text,
                   start, end, sources>>

\* the response is sent and the request's locals are gone
Respond ==
    /\ pc \in {"done", "failed"}
    /\ pc' = "idle"
    /\ method' = "none"
    /\ query' = NoQuery
    /\ use_search' = FALSE
    /\ config' = NoConfig
    /\ calls' = 0
    /\ steps' = <<>>
    /\ response' = NoReply
    /\ raw_text' = <<>>
    /\ start' = -1
    /\ end' = -1
    /\ product_data' = EmptyDict
    /\ sources' = <<>>
    /\ result' = NoResult
    /\ UNCHANGED envVars

Next ==
    \/ fetch_product_details_post
    \/ fetch_product_details_get
    \/ SelectConfig
    \/ GenerateContentRaises
    \/ GenerateContentReturns
    \/ CheckEmpty
    \/ ExtractJson
    \/ ParseJson
    \/ ReadGrounding
    \/ Finish
    \/ Respond

Spec == Init /\ [][Next]_vars

NextStartup == ModuleLoad

SpecStartup == InitStartup /\ [][NextStartup]_vars

(***************************************************************************)
(* Properties                                                              *)
(***************************************************************************)
\* the step was executed in the current request
Did(step) == \E i \in 1..Len(steps) : steps[i] = step

HasChar(s, c) == \E i \in 1..Len(s) : s[i] = c

\* the places <<i, j>> of raw_text that hold a well-formed JSON object
EmbeddedObjects(t) ==
    {ij \in (1..Len(t)) \X (1..Len(t)) :
        ij[1] <= ij[2] /\ json_loads(SubSeq(t, ij[1], ij[2])).ok}

\* the brace span is the object at <<i, j>>, and its parse is the object's content
SelectsObject(i, j) ==
    /\ start = i - 1
    /\ end = j - 1
    /\ pc # "failed"
    /\ pc \in {"grounding", "finish"} =>
          product_data = json_loads(SubSeq(raw_text, i, j)).value

\* C1 as stated: whenever the reply text holds exactly one well-formed JSON
\* object, whatever surrounds it, the brace span selects that object and
\* its parse is the object's content.
C1_AnyProse ==
    (Did("find") /\ Cardinality(EmbeddedObjects(raw_text)) = 1) =>
        \A ij \in EmbeddedObjects(raw_text) : SelectsObject(ij[1], ij[2])

\* C1 amended: when the reply text is a well-formed JSON object preceded by
\* text without "{" and followed by text without "}", the brace span
\* selects exactly that object and its parse is the object's content.
C1_BraceFreeProse ==
    Did("find") =>
        \A ij \in EmbeddedObjects(raw_text) :
            (/\ ~HasChar(SubSeq(raw_text, 1, ij[1] - 1), "{")
             /\ ~HasChar(SubSeq(raw_text, ij[2] + 1, Len(raw_text)), "}"))
            => SelectsObject(ij[1], ij[2])

C1_Witness ==
    /\ pc = "grounding"
    /\ raw_text = <<"x", "{", "a", "}", "x">>
    /\ product_data = json_loads(<<"{", "a", "}">>).value

\* the chunks that carry a web citation with a non-empty uri and title
IsCited(c) == c.web = "object" /\ Truthy(c.uri) /\ Truthy(c.title)
CitedSources(chunks) ==
    LET cited == SelectSeq(chunks, IsCited)
    IN [i \in 1..Len(cited) |-> [uri |-> cited[i].uri, title |-> cited[i].title]]

\* C2: once the chunk list is read, sources holds one {uri, title} entry per
\* chunk with a non-empty uri and title, in order; the other chunks, a
\* chunk whose web is absent or None included, are left out and change
\* nothing else.
C2_PerChunkSources ==
    (pc \in {"finish", "done"} /\ response.grounding.shape = "chunks") =>
        sources = CitedSources(response.grounding.chunks)

\* C3: every failed request ends with status 500 and a {"detail": string}
\* body, a JSON parse failure included.
C3_StructuredFailure ==
    pc = "failed" => (result.status = 500 /\ result.kind = "detail")

\* C4: a record returned with success has no top-level "visualDescription"
\* key.
C4_NoVisualDescription ==
    result.status = 200 => "visualDescription" \notin DOMAIN result.body

C4_Witness ==
    /\ pc = "done"
    /\ result.status = 200
    /\ raw_text = <<"{", "a", ",", "v", "}">>
    /\ "visualDescription" \in DOMAIN json_loads(ExtractedSpan(raw_text, start, end)).value
    /\ "brand" \in DOMAIN result.body

\* the grounding metadata is absent along the attribute path, or reading it
\* raises at some chunk
Unreadable(g) ==
    \/ g.shape \in BrokenShapes
    \/ \E i \in 1..Len(g.chunks) : g.chunks[i].web = "null"

\* C5: once the text has parsed, reading the grounding metadata never fails
\* the request, and when the metadata is absent, malformed or raises while
\* read (part-way through the chunks too), the returned record has
\* "sources" equal to the empty sequence.
C5_GroundingNeverFails ==
    /\ Did("grounding") => pc \in {"finish", "done"}
    /\ (pc = "done" /\ Unreadable(response.grounding)) =>
          /\ result.status = 200
          /\ "sources" \in DOMAIN result.body
          /\ result.body["sources"] = <<>>

C5_Witness ==
    /\ pc = "done"
    /\ response.grounding.shape = "chunks"
    /\ Len(response.grounding.chunks) = 2
    /\ IsCited(response.grounding.chunks[1])
    /\ response.grounding.chunks[2].web = "null"
    /\ result.body["sources"] = <<>>

\* the text has no "{", or no "}", or its last "}" is before its first "{"
NoBraceSpan(t) ==
    \/ ~HasChar(t, "{")
    \/ ~HasChar(t, "}")
    \/ \A i, j \in 1..Len(t) : (t[i] = "{" /\ t[j] = "}") => j < i

\* C6 as stated: a request whose reply text has no brace span fails with
\* "No valid JSON found in response" and never reaches json.loads.
C6_NoSpanIsNoJson ==
    (pc \in {"done", "failed"} /\ Did("empty_check") /\ ~response.text_none
        /\ NoBraceSpan(response.text)) =>
        /\ result = HTTPException(NoJsonDetail)
        /\ ~Did("json_loads")

\* C6 amended: a request whose reply text is non-empty and has no brace span
\* fails with "No valid JSON found in response" and never reaches
\* json.loads.
C6_NonEmptyNoSpanIsNoJson ==
    /\ (Did("empty_check") /\ NoBraceSpan(response.text)) => ~Did("json_loads")
    /\ (pc \in {"done", "failed"} /\ Did("empty_check") /\ ~response.text_none
          /\ Len(response.text) > 0 /\ NoBraceSpan(response.text)) =>
          result = HTTPException(NoJsonDetail)

C6_Witness ==
    /\ pc = "failed"
    /\ raw_text = <<"}", "x", "{">>
    /\ result = HTTPException(NoJsonDetail)
    /\ ~Did("json_loads")

\* C7: when the reply text is empty or absent, the request fails with "Empty
\* response from Gemini API" at the emptiness check; the brace search,
\* json.loads and the grounding read do not run.
C7_EmptyBeforeExtraction ==
    (Did("empty_check") /\ (response.text_none \/ response.text = <<>>)) =>
        /\ pc = "failed"
        /\ result = HTTPException(EmptyDetail)
        /\ result # HTTPException(NoJsonDetail)
        /\ steps = <<"generate_content", "empty_check">>

C7_Witness ==
    /\ pc = "failed"
    /\ ~response.text_none
    /\ response.text = <<>>
    /\ result = HTTPException(EmptyDetail)

\* C8: a request calls generate_content at most once; when that call raises
\* the request fails at once with the "Gemini API call failed" detail that
\* names use_search, and no later step runs.
C8_SingleInvocation ==
    /\ calls <= 1
    /\ (steps # <<>> /\ steps[Len(steps)] = "generate_content" /\ pc # "check_empty") =>
          /\ pc = "failed"
          /\ calls = 1
          /\ steps = <<"generate_content">>
          /\ result.status = 500
          /\ result.kind = "detail"
          /\ result.detail = (IF use_search
                              THEN "Gemini API call failed (use_search=True)"
                              ELSE "Gemini API call failed (use_search=False)")

C8_Witness ==
    /\ pc = "failed"
    /\ calls = 1
    /\ use_search
    /\ result.detail = "Gemini API call failed (use_search=True)"

\* C9: start-up needs the API key only outside Vertex AI mode: with Vertex AI
\* selected it succeeds exactly when project and location are both set,
\* and otherwise exactly when the API key is set.
C9_KeyOnlyWithoutVertex ==
    phase # "loading" =>
        IF USE_VERTEXAI(env)
        THEN phase = "running" <=>
                (Truthy(env.GOOGLE_CLOUD_PROJECT) /\ Truthy(env.GOOGLE_CLOUD_LOCATION))
        ELSE phase = "running" <=> Truthy(env.API_KEY)

\* C10: on both routes the configuration handed to generate_content has the
\* search tool exactly when the request's useSearch is true (omitted
\* counts as false), and temperature 0.5 either way.
C10_SearchToolIffFlag ==
    pc \notin {"idle", "config"} =>
        /\ method \in {"GET", "POST"}
        /\ (config.tools = <<"google_search">>) <=> (query.useSearch = "true")
        /\ (config.tools = <<>>) <=> (query.useSearch \in {"false", "omitted"})
        /\ config.temperature = 5

C10_Witness ==
    /\ calls = 1
    /\ method = "POST"
    /\ query.useSearch = "true"
    /\ config.tools = <<"google_search">>

====
